---- MODULE Spec2Model ----
(***************************************************************************)
(* File sharing server (src/server.py): the identity store (users,        *)
(* users.json, JWT access tokens) and the file registry (files, the       *)
(* uploads folder).  Spec and SpecEnv have one action per HTTP handler,   *)
(* each handler run as one atomic step; SpecTime adds the clock that      *)
(* expires tokens; SpecConc runs the file handlers on threads, one        *)
(* statement at a time.                                                   *)
(***************************************************************************)
EXTENDS Integers, Sequences, FiniteSets, TLC

(* ---- bounds of the model ---- *)
\* access tokens outstanding at any time
MaxSessions == 2
\* the lifetime of an access token, in hours
JWT_ACCESS_TOKEN_EXPIRES == 1
\* the clock counts fractions of an hour, up to MaxTime
TicksPerHour == 2
MaxTime == 2
\* requests handled at the same time
MaxThreads == 2

(* ---- input domains ---- *)
Usernames == {"alice", "bob", "carol"}
Passwords == {"p1", "p2"}
Salts == {"s1"}
Contents == {"d1", "d2"}
\* absent request field / no file part / no Authorization header
NoField == ""
NoFile == [filename |-> <<"-">>, content |-> ""]
NoToken == [sub |-> "", exp |-> 0]
\* file names are sequences of characters; the names a client sends
RawNames == {<<"a">>, <<".", ".", "/", "a">>}
BadNames == {<<".", ".">>, <<>>}
\* the names a client puts in a URL path (never empty, no "/")
PathNames == {<<"a">>}

VARIABLES
    users,       \* dict username -> [password, files]          (line 23)
    files,       \* dict filename -> [owner, shared_with]       (line 24)
    users_json,  \* the file users.json: a dict, or absent      (lines 27-37)
    uploads,     \* the folder uploads/: filename -> content    (line 16)
    tokens,      \* access tokens issued so far (held by clients)
    resp,        \* the last request and its response
    pre,         \* what the last request found: the named file's record and content
    given,       \* username -> the password its successful registration gave
    now,         \* the clock
    auth,        \* the token the last request presented
    inflight,    \* the requests being handled: thread -> its position and locals
    hist         \* who stored each content, and the shares that overlapped

vars == <<users, files, users_json, uploads, tokens, resp, pre, given, now, auth,
          inflight, hist>>

(* ---- dicts as functions ---- *)
EmptyDict == <<>>
Absent == [absent |-> TRUE]

Put(d, k, v) == [x \in (DOMAIN d) \cup {k} |-> IF x = k THEN v ELSE d[x]]

Del(d, k) == [x \in (DOMAIN d) \ {k} |-> d[x]]

Contains(seq, x) == \E i \in 1..Len(seq) : seq[i] = x

\* list.remove(x): removes the first occurrence
RECURSIVE Remove(_, _)
Remove(seq, x) ==
    IF seq = <<>> THEN <<>>
    ELSE IF Head(seq) = x THEN Tail(seq)
    ELSE <<Head(seq)>> \o Remove(Tail(seq), x)

\* the keys of a dict in iteration order (one fixed order per dict)
RECURSIVE KeySeq(_)
KeySeq(S) ==
    IF S = {} THEN <<>>
    ELSE LET k == CHOOSE x \in S : TRUE IN <<k>> \o KeySeq(S \ {k})

(* ---- werkzeug.utils.secure_filename, as called at line 120 ---- *)
SafeChars == {"a", "b", ".", "_", "-"}

RECURSIVE LStrip(_, _)
LStrip(s, cs) ==
    IF s # <<>> /\ Head(s) \in cs THEN LStrip(Tail(s), cs) ELSE s

RECURSIVE RStrip(_, _)
RStrip(s, cs) ==
    IF s # <<>> /\ s[Len(s)] \in cs THEN RStrip(SubSeq(s, 1, Len(s) - 1), cs) ELSE s

Strip(s, cs) == RStrip(LStrip(s, cs), cs)

\* "_".join(s.split()) on a string already stripped of outer blanks
RECURSIVE JoinWords(_)
JoinWords(s) ==
    IF s = <<>> THEN <<>>
    ELSE IF Head(s) = " "
         THEN <<"_">> \o JoinWords(LStrip(s, {" "}))
         ELSE <<Head(s)>> \o JoinWords(Tail(s))

secure_filename(name) ==
    LET spaced == [i \in 1..Len(name) |-> IF name[i] = "/" THEN " " ELSE name[i]]
        joined == JoinWords(Strip(spaced, {" "}))
        ascii  == SelectSeq(joined, LAMBDA c : c \in SafeChars)
    IN  Strip(ascii, {".", "_"})

(* ---- bcrypt ---- *)
hashpw(password, salt) == [salt |-> salt, digest |-> <<salt, password>>]

\* a comparison that looks at the salt only
checkpw_salt_only(password, hashed) == hashed.salt \in Salts

checkpw(password, hashed) == hashpw(password, hashed.salt) = hashed

(* ---- flask_jwt_extended ---- *)
\* the token names its subject and the time it expires
create_access_token(identity) ==
    [sub |-> identity, exp |-> now + JWT_ACCESS_TOKEN_EXPIRES * TicksPerHour]

\* a check of the signature only
jwt_signed(token) == token \in tokens

\* @jwt_required(): the token is one this server signed and has not expired
jwt_valid(token) == token \in tokens /\ now < token.exp

get_jwt_identity(token) == token.sub

\* nothing stored, no shares made
NoHistory == [uploader |-> EmptyDict, races |-> EmptyDict]

(* ---- responses ---- *)
\* a request (op, caller, name, target, the content sent) and the response
\* to it (status, msg, body)
Response(op, caller, name, target, status, msg, body) ==
    [op |-> op, caller |-> caller, name |-> name, target |-> target,
     sent |-> NoField, status |-> status, msg |-> msg, body |-> body]

Sending(content, response) == [response EXCEPT !.sent = content]

\* @jwt_required() turns the request down before the handler reads anything
Unauthorized(op) ==
    Response(op, NoField, <<>>, NoField, 401, "Missing Authorization Header", <<>>)

\* the answer to a token @jwt_required() does not accept
Rejected(op, token) ==
    IF token = NoToken
    THEN Unauthorized(op)
    ELSE Response(op, NoField, <<>>, NoField, 401, "Token has expired", <<>>)

\* what a request finds: the owner of the record of filename, how many users
\* it is shared with, whether target_user is one of them, and whether the
\* content is stored
Found(filename, target_user) ==
    [owner   |-> IF filename \in DOMAIN files THEN files[filename].owner ELSE NoField,
     shares  |-> IF filename \in DOMAIN files
                 THEN Len(files[filename].shared_with) ELSE 0,
     granted |-> /\ filename \in DOMAIN files
                 /\ Contains(files[filename].shared_with, target_user),
     stored  |-> filename \in DOMAIN uploads]

(* ---- helper functions, lines 27-37 ---- *)
save_users(u) == u

load_users(file) == IF file = Absent THEN EmptyDict ELSE file

(* ---- handlers ---- *)
\* register without the duplicate test of line 68
register_overwrite(username, password, salt) ==
    IF username = NoField \/ password = NoField
    THEN /\ resp' = Sending(password, Response("register", NoField, <<>>, username, 400,
                             "Missing username or password", <<>>))
         /\ UNCHANGED <<users, users_json>>
    ELSE /\ users' = Put(users, username,
                         [password |-> hashpw(password, salt), files |-> <<>>])
         /\ users_json' = save_users(users')
         /\ resp' = Sending(password, Response("register", NoField, <<>>, username, 201,
                             "User registered successfully", <<>>))

\* lines 59-79
register(username, password, salt) ==
    IF username = NoField \/ password = NoField
    THEN /\ resp' = Sending(password, Response("register", NoField, <<>>, username, 400,
                             "Missing username or password", <<>>))
         /\ UNCHANGED <<users, users_json>>
    ELSE IF username \in DOMAIN users
    THEN /\ resp' = Sending(password, Response("register", NoField, <<>>, username, 400,
                             "Username already exists", <<>>))
         /\ UNCHANGED <<users, users_json>>
    ELSE /\ users' = Put(users, username,
                         [password |-> hashpw(password, salt), files |-> <<>>])
         /\ users_json' = save_users(users')
         /\ resp' = Sending(password, Response("register", NoField, <<>>, username, 201,
                             "User registered successfully", <<>>))

\* lines 81-95
login(username, password) ==
    IF username = NoField \/ password = NoField
    THEN /\ resp' = Sending(password, Response("login", NoField, <<>>, username, 400,
                             "Missing username or password", <<>>))
         /\ UNCHANGED tokens
    ELSE IF username \notin DOMAIN users
            \/ ~checkpw(password, users[username].password)
    THEN /\ resp' = Sending(password, Response("login", NoField, <<>>, username, 401,
                             "Invalid username or password", <<>>))
         /\ UNCHANGED tokens
    ELSE /\ tokens' = tokens \cup {create_access_token(username)}
         /\ resp' = Sending(password, Response("login", NoField, <<>>, username, 200, "",
                             create_access_token(username)))

\* the list of line 101 without its ownership filter
every_file(username) == KeySeq(DOMAIN files)

\* lines 97-107
owned_files(username) ==
    SelectSeq(KeySeq(DOMAIN files), LAMBDA f : files[f].owner = username)

shared_files(username) ==
    SelectSeq(KeySeq(DOMAIN files), LAMBDA f : Contains(files[f].shared_with, username))

get_files(username) ==
    Response("files", username, <<>>, NoField, 200, "",
             [owned_files |-> owned_files(username),
              shared_files |-> shared_files(username)])

\* a re-upload that takes the record over but keeps its shares
merged_metadata(username, filename) ==
    IF filename \in DOMAIN files
    THEN [files EXCEPT ![filename].owner = username]
    ELSE Put(files, filename, [owner |-> username, shared_with |-> <<>>])

\* lines 126-130
new_metadata(username, filename) ==
    Put(files, filename, [owner |-> username, shared_with |-> <<>>])

\* lines 109-132
upload_file(username, file) ==
    IF file = NoFile
    THEN /\ resp' = Response("upload", username, <<>>, NoField, 400,
                             "No file provided", <<>>)
         /\ UNCHANGED <<files, uploads>>
    ELSE IF file.filename = <<>>
    THEN /\ resp' = Response("upload", username, file.filename, NoField, 400,
                             "No file selected", <<>>)
         /\ UNCHANGED <<files, uploads>>
    ELSE LET filename == secure_filename(file.filename) IN
         IF filename = <<>>
         THEN \* file.save on the folder itself raises: an unhandled error
              /\ resp' = Response("upload", username, file.filename, NoField, 500,
                                  "Internal Server Error", <<>>)
              /\ UNCHANGED <<files, uploads>>
         ELSE /\ uploads' = Put(uploads, filename, file.content)
              /\ files' = new_metadata(username, filename)
              /\ resp' = Sending(file.content,
                                  Response("upload", username, file.filename, NoField,
                                           201, "File uploaded successfully", <<>>))

\* "or" where line 143 has "and"
access_denied_or(username, file_data) ==
    \/ file_data.owner # username
    \/ ~Contains(file_data.shared_with, username)

\* line 143
access_denied(username, file_data) ==
    /\ file_data.owner # username
    /\ ~Contains(file_data.shared_with, username)

\* lines 134-147
download_file(username, filename) ==
    IF filename \notin DOMAIN files
    THEN Response("download", username, filename, NoField, 404, "File not found", NoField)
    ELSE IF access_denied(username, files[filename])
    THEN Response("download", username, filename, NoField, 403, "Access denied", NoField)
    ELSE IF filename \notin DOMAIN uploads
    THEN \* send_file on a missing path raises: an unhandled error
         Response("download", username, filename, NoField, 500,
                  "Internal Server Error", NoField)
    ELSE Response("download", username, filename, NoField, 200, "", uploads[filename])

\* a share that hands the file over to the target
share_transfer(filename, target_user) ==
    [files EXCEPT ![filename] = [owner |-> target_user, shared_with |-> <<>>]]

\* the append of line 170 without the membership test of line 169
share_append_always(filename, target_user) ==
    [files EXCEPT ![filename].shared_with = Append(@, target_user)]

\* lines 169-170
share_append(filename, target_user) ==
    IF ~Contains(files[filename].shared_with, target_user)
    THEN [files EXCEPT ![filename].shared_with = Append(@, target_user)]
    ELSE files

\* the ownership test before the existence test
share_file_owner_first(username, filename, target_user) ==
    IF filename = <<>> \/ target_user = NoField
    THEN /\ resp' = Response("share", username, filename, target_user, 400,
                             "Missing filename or target username", <<>>)
         /\ UNCHANGED files
    ELSE IF filename \notin DOMAIN files \/ files[filename].owner # username
    THEN /\ resp' = Response("share", username, filename, target_user, 403,
                             "You can only share files you own", <<>>)
         /\ UNCHANGED files
    ELSE IF target_user \notin DOMAIN users
    THEN /\ resp' = Response("share", username, filename, target_user, 404,
                             "Target user does not exist", <<>>)
         /\ UNCHANGED files
    ELSE /\ files' = share_append(filename, target_user)
         /\ resp' = Response("share", username, filename, target_user, 200,
                             "File shared successfully", <<>>)

\* lines 149-172
share_file(username, filename, target_user) ==
    IF filename = <<>> \/ target_user = NoField
    THEN /\ resp' = Response("share", username, filename, target_user, 400,
                             "Missing filename or target username", <<>>)
         /\ UNCHANGED files
    ELSE IF filename \notin DOMAIN files
    THEN /\ resp' = Response("share", username, filename, target_user, 404,
                             "File not found", <<>>)
         /\ UNCHANGED files
    ELSE IF files[filename].owner # username
    THEN /\ resp' = Response("share", username, filename, target_user, 403,
                             "You can only share files you own", <<>>)
         /\ UNCHANGED files
    ELSE IF target_user \notin DOMAIN users
    THEN /\ resp' = Response("share", username, filename, target_user, 404,
                             "Target user does not exist", <<>>)
         /\ UNCHANGED files
    ELSE /\ files' = share_append(filename, target_user)
         /\ resp' = Response("share", username, filename, target_user, 200,
                             "File shared successfully", <<>>)

\* list.pop() where line 192 has list.remove(target_user)
revoke_pop(filename, target_user) ==
    IF Contains(files[filename].shared_with, target_user)
    THEN [files EXCEPT ![filename].shared_with = SubSeq(@, 1, Len(@) - 1)]
    ELSE files

\* lines 191-192
revoke_remove(filename, target_user) ==
    IF Contains(files[filename].shared_with, target_user)
    THEN [files EXCEPT ![filename].shared_with = Remove(@, target_user)]
    ELSE files

\* revoke without the ownership test of lines 188-189
revoke_access_any_caller(username, filename, target_user) ==
    IF filename = <<>> \/ target_user = NoField
    THEN /\ resp' = Response("revoke", username, filename, target_user, 400,
                             "Missing filename or target username", <<>>)
         /\ UNCHANGED files
    ELSE IF filename \notin DOMAIN files
    THEN /\ resp' = Response("revoke", username, filename, target_user, 404,
                             "File not found", <<>>)
         /\ UNCHANGED files
    ELSE /\ files' = revoke_remove(filename, target_user)
         /\ resp' = Response("revoke", username, filename, target_user, 200,
                             "Access revoked successfully", <<>>)

\* revoke with the target test share has at lines 166-167
revoke_access_registered(username, filename, target_user) ==
    IF filename = <<>> \/ target_user = NoField
    THEN /\ resp' = Response("revoke", username, filename, target_user, 400,
                             "Missing filename or target username", <<>>)
         /\ UNCHANGED files
    ELSE IF filename \notin DOMAIN files
    THEN /\ resp' = Response("revoke", username, filename, target_user, 404,
                             "File not found", <<>>)
         /\ UNCHANGED files
    ELSE IF files[filename].owner # username
    THEN /\ resp' = Response("revoke", username, filename, target_user, 403,
                             "You can only revoke access to files you own", <<>>)
         /\ UNCHANGED files
    ELSE IF target_user \notin DOMAIN users
    THEN /\ resp' = Response("revoke", username, filename, target_user, 404,
                             "Target user does not exist", <<>>)
         /\ UNCHANGED files
    ELSE /\ files' = revoke_remove(filename, target_user)
         /\ resp' = Response("revoke", username, filename, target_user, 200,
                             "Access revoked successfully", <<>>)

\* lines 174-194
revoke_access(username, filename, target_user) ==
    IF filename = <<>> \/ target_user = NoField
    THEN /\ resp' = Response("revoke", username, filename, target_user, 400,
                             "Missing filename or target username", <<>>)
         /\ UNCHANGED files
    ELSE IF filename \notin DOMAIN files
    THEN /\ resp' = Response("revoke", username, filename, target_user, 404,
                             "File not found", <<>>)
         /\ UNCHANGED files
    ELSE IF files[filename].owner # username
    THEN /\ resp' = Response("revoke", username, filename, target_user, 403,
                             "You can only revoke access to files you own", <<>>)
         /\ UNCHANGED files
    ELSE /\ files' = revoke_remove(filename, target_user)
         /\ resp' = Response("revoke", username, filename, target_user, 200,
                             "Access revoked successfully", <<>>)

\* delete open to the users the file is shared with
delete_file_shared(username, filename) ==
    IF filename \notin DOMAIN files
    THEN /\ resp' = Response("delete", username, filename, NoField, 404,
                             "File not found", <<>>)
         /\ UNCHANGED <<files, uploads>>
    ELSE IF access_denied(username, files[filename])
    THEN /\ resp' = Response("delete", username, filename, NoField, 403,
                             "You can only delete files you own", <<>>)
         /\ UNCHANGED <<files, uploads>>
    ELSE /\ uploads' = IF filename \in DOMAIN uploads
                       THEN Del(uploads, filename)
                       ELSE uploads
         /\ files' = Del(files, filename)
         /\ resp' = Response("delete", username, filename, NoField, 200,
                             "File deleted successfully", <<>>)

\* the ownership test before the existence test
delete_file_owner_first(username, filename) ==
    IF filename \notin DOMAIN files \/ files[filename].owner # username
    THEN /\ resp' = Response("delete", username, filename, NoField, 403,
                             "You can only delete files you own", <<>>)
         /\ UNCHANGED <<files, uploads>>
    ELSE /\ uploads' = IF filename \in DOMAIN uploads
                       THEN Del(uploads, filename)
                       ELSE uploads
         /\ files' = Del(files, filename)
         /\ resp' = Response("delete", username, filename, NoField, 200,
                             "File deleted successfully", <<>>)

\* os.remove without the os.path.exists test of line 209
delete_file_strict(username, filename) ==
    IF filename \notin DOMAIN files
    THEN /\ resp' = Response("delete", username, filename, NoField, 404,
                             "File not found", <<>>)
         /\ UNCHANGED <<files, uploads>>
    ELSE IF files[filename].owner # username
    THEN /\ resp' = Response("delete", username, filename, NoField, 403,
                             "You can only delete files you own", <<>>)
         /\ UNCHANGED <<files, uploads>>
    ELSE IF filename \notin DOMAIN uploads
    THEN /\ resp' = Response("delete", username, filename, NoField, 500,
                             "Internal Server Error", <<>>)
         /\ UNCHANGED <<files, uploads>>
    ELSE /\ uploads' = Del(uploads, filename)
         /\ files' = Del(files, filename)
         /\ resp' = Response("delete", username, filename, NoField, 200,
                             "File deleted successfully", <<>>)

\* lines 196-215
delete_file(username, filename) ==
    IF filename \notin DOMAIN files
    THEN /\ resp' = Response("delete", username, filename, NoField, 404,
                             "File not found", <<>>)
         /\ UNCHANGED <<files, uploads>>
    ELSE IF files[filename].owner # username
    THEN /\ resp' = Response("delete", username, filename, NoField, 403,
                             "You can only delete files you own", <<>>)
         /\ UNCHANGED <<files, uploads>>
    ELSE /\ uploads' = IF filename \in DOMAIN uploads
                       THEN Del(uploads, filename)
                       ELSE uploads
         /\ files' = Del(files, filename)
         /\ resp' = Response("delete", username, filename, NoField, 200,
                             "File deleted successfully", <<>>)

(* ---- the requests clients send ---- *)
Files ==
    {NoFile} \cup [filename : RawNames, content : Contents]
             \cup [filename : BadNames, content : {"d1"}]

\* the JSON bodies of share and revoke requests
Grants ==
    [filename : PathNames, username : Usernames \cup {NoField}]
        \cup {[filename |-> <<>>, username |-> "bob"]}

\* the JSON bodies of register and login requests: every user with one
\* password, one user with either password, and the two incomplete bodies
Credentials ==
    [username : Usernames, password : {"p1"}]
        \cup [username : {"alice"}, password : Passwords]
        \cup {[username |-> NoField, password |-> "p1"],
              [username |-> "alice", password |-> NoField]}

Register ==
    \E data \in Credentials, salt \in Salts :
        /\ register(data.username, data.password, salt)
        /\ pre' = Found(<<>>, NoField)
        /\ given' = IF resp'.status = 201
                     THEN Put(given, data.username, data.password)
                     ELSE given
        /\ auth' = NoToken
        /\ UNCHANGED <<files, uploads, tokens, now, inflight, hist>>

Login ==
    \E data \in Credentials :
        /\ login(data.username, data.password)
        /\ Cardinality(tokens') <= MaxSessions
        /\ pre' = Found(<<>>, NoField)
        /\ auth' = NoToken
        /\ UNCHANGED <<users, users_json, files, uploads, given, now, inflight, hist>>

List ==
    \E token \in tokens \cup {NoToken} :
        /\ resp' = IF jwt_valid(token)
                   THEN get_files(get_jwt_identity(token))
                   ELSE Rejected("files", token)
        /\ pre' = Found(<<>>, NoField)
        /\ auth' = token
        /\ UNCHANGED <<users, users_json, files, uploads, tokens, given, now, inflight, hist>>

Upload ==
    \E token \in tokens \cup {NoToken} :
        /\ IF jwt_valid(token)
           THEN \E file \in Files :
                    /\ upload_file(get_jwt_identity(token), file)
                    /\ pre' = Found(secure_filename(file.filename), NoField)
           ELSE /\ resp' = Rejected("upload", token)
                /\ pre' = Found(<<>>, NoField)
                /\ UNCHANGED <<files, uploads>>
        /\ auth' = token
        /\ UNCHANGED <<users, users_json, tokens, given, now, inflight, hist>>

Download ==
    \E token \in tokens \cup {NoToken} :
        /\ IF jwt_valid(token)
           THEN \E filename \in PathNames :
                    /\ resp' = download_file(get_jwt_identity(token), filename)
                    /\ pre' = Found(filename, NoField)
           ELSE /\ resp' = Rejected("download", token)
                /\ pre' = Found(<<>>, NoField)
        /\ auth' = token
        /\ UNCHANGED <<users, users_json, files, uploads, tokens, given, now, inflight, hist>>

Share ==
    \E token \in tokens \cup {NoToken} :
        /\ IF jwt_valid(token)
           THEN \E data \in Grants :
                    /\ share_file(get_jwt_identity(token), data.filename, data.username)
                    /\ pre' = Found(data.filename, data.username)
           ELSE /\ resp' = Rejected("share", token)
                /\ pre' = Found(<<>>, NoField)
                /\ UNCHANGED files
        /\ auth' = token
        /\ UNCHANGED <<users, users_json, uploads, tokens, given, now, inflight, hist>>

Revoke ==
    \E token \in tokens \cup {NoToken} :
        /\ IF jwt_valid(token)
           THEN \E data \in Grants :
                    /\ revoke_access(get_jwt_identity(token), data.filename, data.username)
                    /\ pre' = Found(data.filename, data.username)
           ELSE /\ resp' = Rejected("revoke", token)
                /\ pre' = Found(<<>>, NoField)
                /\ UNCHANGED files
        /\ auth' = token
        /\ UNCHANGED <<users, users_json, uploads, tokens, given, now, inflight, hist>>

Delete ==
    \E token \in tokens \cup {NoToken} :
        /\ IF jwt_valid(token)
           THEN \E filename \in PathNames :
                    /\ delete_file(get_jwt_identity(token), filename)
                    /\ pre' = Found(filename, NoField)
           ELSE /\ resp' = Rejected("delete", token)
                /\ pre' = Found(<<>>, NoField)
                /\ UNCHANGED <<files, uploads>>
        /\ auth' = token
        /\ UNCHANGED <<users, users_json, tokens, given, now, inflight, hist>>

\* the process stops and starts again: lines 20-40 run anew
Restart ==
    /\ users' = load_users(users_json)
    /\ files' = EmptyDict
    /\ resp' = Response("restart", NoField, <<>>, NoField, 0, "", <<>>)
    /\ pre' = Found(<<>>, NoField)
    /\ auth' = NoToken
    /\ UNCHANGED <<users_json, uploads, tokens, given, now, inflight, hist>>

\* a stored file disappears from the uploads folder behind the server's back
\* (the case line 209 provides for)
ContentLost ==
    \E filename \in DOMAIN uploads :
        /\ uploads' = Del(uploads, filename)
        /\ resp' = Response("lost", NoField, filename, NoField, 0, "", <<>>)
        /\ pre' = Found(filename, NoField)
        /\ auth' = NoToken
        /\ UNCHANGED <<users, users_json, files, tokens, given, now, inflight, hist>>

Init ==
    /\ users_json = Absent
    /\ users = load_users(users_json)
    /\ files = EmptyDict
    /\ uploads = EmptyDict
    /\ tokens = {}
    /\ resp = Response("start", NoField, <<>>, NoField, 0, "", <<>>)
    /\ pre = Found(<<>>, NoField)
    /\ given = EmptyDict
    /\ now = 0
    /\ auth = NoToken
    /\ inflight = EmptyDict
    /\ hist = NoHistory

Next ==
    \/ Register
    \/ Login
    \/ List
    \/ Upload
    \/ Download
    \/ Share
    \/ Revoke
    \/ Delete
    \/ Restart

Spec == Init /\ [][Next]_vars

NextEnv ==
    \/ Next
    \/ ContentLost

SpecEnv == Init /\ [][NextEnv]_vars

(* ---- the server with a clock ---- *)
\* time passes
Tick ==
    /\ now < MaxTime
    /\ now' = now + 1
    /\ resp' = Response("tick", NoField, <<>>, NoField, 0, "", <<>>)
    /\ pre' = Found(<<>>, NoField)
    /\ auth' = NoToken
    /\ UNCHANGED <<users, users_json, files, uploads, tokens, given, inflight, hist>>

\* a server on which two users have registered
InitTime ==
    /\ users = [u \in {"alice", "bob"} |->
                    [password |-> hashpw("p1", "s1"), files |-> <<>>]]
    /\ users_json = save_users(users)
    /\ given = [u \in {"alice", "bob"} |-> "p1"]
    /\ files = EmptyDict
    /\ uploads = EmptyDict
    /\ tokens = {}
    /\ resp = Response("start", NoField, <<>>, NoField, 0, "", <<>>)
    /\ pre = Found(<<>>, NoField)
    /\ now = 0
    /\ auth = NoToken
    /\ inflight = EmptyDict
    /\ hist = NoHistory

NextTime ==
    \/ Login
    \/ List
    \/ Upload
    \/ Download
    \/ Share
    \/ Revoke
    \/ Delete
    \/ Tick

SpecTime == InitTime /\ [][NextTime]_vars

(* ---- the file handlers statement by statement ---- *)
\* Flask's server handles each request on a thread of its own; a thread is
\* at the line its pc names, and the other threads run between its lines.
Threads == 1..MaxThreads

\* the uploads the threads carry: names and parts that pass lines 112-117
ConcFiles == [filename : PathNames, content : {"d1"}]

\* a request on its thread: its token, the arguments it read, and its line
Request(op, token, filename, target_user, content, pc) ==
    [op |-> op, token |-> token, filename |-> filename,
     target_user |-> target_user, content |-> content, pc |-> pc,
     alone |-> TRUE, paired |-> FALSE]

\* a and b are Share requests of one caller for one file and one target
SameShare(a, b) ==
    /\ a.op = "share"
    /\ b.op = "share"
    /\ a.token.sub = b.token.sub
    /\ a.filename = b.filename
    /\ a.target_user = b.target_user

\* thread t takes up a request; it and the requests in flight now overlap
Start(t, request) ==
    /\ t \notin DOMAIN inflight
    /\ inflight' =
           [x \in DOMAIN inflight \cup {t} |->
               IF x = t
               THEN [request EXCEPT
                       !.alone = (DOMAIN inflight = {}),
                       !.paired = \E y \in DOMAIN inflight :
                                      SameShare(inflight[y], request)]
               ELSE [inflight[x] EXCEPT
                       !.alone = FALSE,
                       !.paired = @ \/ SameShare(inflight[x], request)]]
    /\ UNCHANGED <<resp, pre, auth>>

\* thread t moves on to line pc
Goto(t, pc) ==
    /\ inflight' = [inflight EXCEPT ![t].pc = pc]
    /\ UNCHANGED <<resp, pre, auth>>

\* thread t answers its request
Return(t, status, msg, body) ==
    LET r == inflight[t] IN
    /\ inflight' = Del(inflight, t)
    /\ resp' = Sending(r.content,
                       Response(r.op, get_jwt_identity(r.token), r.filename,
                                r.target_user, status, msg, body))
    /\ pre' = Found(r.filename, r.target_user)
    /\ auth' = r.token

\* an exception no handler catches: Flask answers 500; body names it
Raise(t, exception) == Return(t, 500, "Internal Server Error", exception)

At(t, op, pc) ==
    /\ t \in DOMAIN inflight
    /\ inflight[t].op = op
    /\ inflight[t].pc = pc

\* lines 112-120
BeginUpload ==
    \E t \in Threads, token \in tokens, file \in ConcFiles :
        /\ jwt_valid(token)
        /\ Start(t, Request("upload", token, secure_filename(file.filename),
                            NoField, file.content, 124))
        /\ UNCHANGED <<users, users_json, files, uploads, tokens, given, now, hist>>

\* line 124
upload_file_124 ==
    \E t \in Threads :
        /\ At(t, "upload", 124)
        /\ uploads' = Put(uploads, inflight[t].filename, inflight[t].content)
        /\ hist' = [hist EXCEPT !.uploader =
                       Put(@, inflight[t].filename, inflight[t].token.sub)]
        /\ Goto(t, 127)
        /\ UNCHANGED <<users, users_json, files, tokens, given, now>>

\* lines 127-132
upload_file_127 ==
    \E t \in Threads :
        /\ At(t, "upload", 127)
        /\ files' = new_metadata(inflight[t].token.sub, inflight[t].filename)
        /\ Return(t, 201, "File uploaded successfully", <<>>)
        /\ UNCHANGED <<users, users_json, uploads, tokens, given, now, hist>>

\* line 199
BeginDelete ==
    \E t \in Threads, token \in tokens, filename \in PathNames :
        /\ jwt_valid(token)
        /\ Start(t, Request("delete", token, filename, NoField, NoField, 201))
        /\ UNCHANGED <<users, users_json, files, uploads, tokens, given, now, hist>>

\* lines 201-202
delete_file_201 ==
    \E t \in Threads :
        /\ At(t, "delete", 201)
        /\ IF inflight[t].filename \notin DOMAIN files
           THEN Return(t, 404, "File not found", <<>>)
           ELSE Goto(t, 204)
        /\ UNCHANGED <<users, users_json, files, uploads, tokens, given, now, hist>>

\* lines 204-205
delete_file_204 ==
    \E t \in Threads :
        /\ At(t, "delete", 204)
        /\ IF inflight[t].filename \notin DOMAIN files
           THEN Raise(t, "KeyError")
           ELSE IF files[inflight[t].filename].owner # inflight[t].token.sub
           THEN Return(t, 403, "You can only delete files you own", <<>>)
           ELSE Goto(t, 209)
        /\ UNCHANGED <<users, users_json, files, uploads, tokens, given, now, hist>>

\* lines 208-209
delete_file_209 ==
    \E t \in Threads :
        /\ At(t, "delete", 209)
        /\ IF inflight[t].filename \in DOMAIN uploads
           THEN Goto(t, 210)
           ELSE Goto(t, 213)
        /\ UNCHANGED <<users, users_json, files, uploads, tokens, given, now, hist>>

\* line 210
delete_file_210 ==
    \E t \in Threads :
        /\ At(t, "delete", 210)
        /\ IF inflight[t].filename \notin DOMAIN uploads
           THEN /\ Raise(t, "FileNotFoundError")
                /\ UNCHANGED <<uploads, hist>>
           ELSE /\ uploads' = Del(uploads, inflight[t].filename)
                /\ hist' = [hist EXCEPT !.uploader = Del(@, inflight[t].filename)]
                /\ Goto(t, 213)
        /\ UNCHANGED <<users, users_json, files, tokens, given, now>>

\* lines 213-215
delete_file_213 ==
    \E t \in Threads :
        /\ At(t, "delete", 213)
        /\ IF inflight[t].filename \notin DOMAIN files
           THEN /\ Raise(t, "KeyError")
                /\ UNCHANGED files
           ELSE /\ files' = Del(files, inflight[t].filename)
                /\ Return(t, 200, "File deleted successfully", <<>>)
        /\ UNCHANGED <<users, users_json, uploads, tokens, given, now, hist>>

\* the JSON bodies the threads carry: they pass lines 157 and 182
ConcGrants == [filename : PathNames, username : {"bob"}]

\* the caller, file and target of the share or revoke on thread t
Grant(t) ==
    [caller |-> inflight[t].token.sub, filename |-> inflight[t].filename,
     target_user |-> inflight[t].target_user]

\* how many of two overlapping shares of grant g have succeeded
Races(g) == IF g \in DOMAIN hist.races THEN hist.races[g] ELSE 0

\* the share on thread t succeeds
Shared(t) ==
    IF inflight[t].paired /\ Races(Grant(t)) < 2
    THEN [hist EXCEPT !.races = Put(@, Grant(t), Races(Grant(t)) + 1)]
    ELSE hist

\* the revoke on thread t succeeds
Revoked(t) == [hist EXCEPT !.races = Del(@, Grant(t))]

\* lines 152-158
BeginShare ==
    \E t \in Threads, token \in tokens, data \in ConcGrants :
        /\ jwt_valid(token)
        /\ Start(t, Request("share", token, data.filename, data.username,
                            NoField, 160))
        /\ UNCHANGED <<users, users_json, files, uploads, tokens, given, now, hist>>

\* lines 160-161
share_file_160 ==
    \E t \in Threads :
        /\ At(t, "share", 160)
        /\ IF inflight[t].filename \notin DOMAIN files
           THEN Return(t, 404, "File not found", <<>>)
           ELSE Goto(t, 163)
        /\ UNCHANGED <<users, users_json, files, uploads, tokens, given, now, hist>>

\* lines 163-164
share_file_163 ==
    \E t \in Threads :
        /\ At(t, "share", 163)
        /\ IF inflight[t].filename \notin DOMAIN files
           THEN Raise(t, "KeyError")
           ELSE IF files[inflight[t].filename].owner # inflight[t].token.sub
           THEN Return(t, 403, "You can only share files you own", <<>>)
           ELSE Goto(t, 166)
        /\ UNCHANGED <<users, users_json, files, uploads, tokens, given, now, hist>>

\* lines 166-167
share_file_166 ==
    \E t \in Threads :
        /\ At(t, "share", 166)
        /\ IF inflight[t].target_user \notin DOMAIN users
           THEN Return(t, 404, "Target user does not exist", <<>>)
           ELSE Goto(t, 169)
        /\ UNCHANGED <<users, users_json, files, uploads, tokens, given, now, hist>>

\* line 169, and line 172 when the target is in the list
share_file_169 ==
    \E t \in Threads :
        /\ At(t, "share", 169)
        /\ IF inflight[t].filename \notin DOMAIN files
           THEN /\ Raise(t, "KeyError")
                /\ UNCHANGED hist
           ELSE IF ~Contains(files[inflight[t].filename].shared_with,
                             inflight[t].target_user)
           THEN /\ Goto(t, 170)
                /\ UNCHANGED hist
           ELSE /\ Return(t, 200, "File shared successfully", <<>>)
                /\ hist' = Shared(t)
        /\ UNCHANGED <<users, users_json, files, uploads, tokens, given, now>>

\* lines 170-172
share_file_170 ==
    \E t \in Threads :
        /\ At(t, "share", 170)
        /\ IF inflight[t].filename \notin DOMAIN files
           THEN /\ Raise(t, "KeyError")
                /\ UNCHANGED <<files, hist>>
           ELSE /\ files' = [files EXCEPT ![inflight[t].filename].shared_with =
                                Append(@, inflight[t].target_user)]
                /\ Return(t, 200, "File shared successfully", <<>>)
                /\ hist' = Shared(t)
        /\ UNCHANGED <<users, users_json, uploads, tokens, given, now>>

\* lines 177-183
BeginRevoke ==
    \E t \in Threads, token \in tokens, data \in ConcGrants :
        /\ jwt_valid(token)
        /\ Start(t, Request("revoke", token, data.filename, data.username,
                            NoField, 185))
        /\ UNCHANGED <<users, users_json, files, uploads, tokens, given, now, hist>>

\* lines 185-186
revoke_access_185 ==
    \E t \in Threads :
        /\ At(t, "revoke", 185)
        /\ IF inflight[t].filename \notin DOMAIN files
           THEN Return(t, 404, "File not found", <<>>)
           ELSE Goto(t, 188)
        /\ UNCHANGED <<users, users_json, files, uploads, tokens, given, now, hist>>

\* lines 188-189
revoke_access_188 ==
    \E t \in Threads :
        /\ At(t, "revoke", 188)
        /\ IF inflight[t].filename \notin DOMAIN files
           THEN Raise(t, "KeyError")
           ELSE IF files[inflight[t].filename].owner # inflight[t].token.sub
           THEN Return(t, 403, "You can only revoke access to files you own", <<>>)
           ELSE Goto(t, 191)
        /\ UNCHANGED <<users, users_json, files, uploads, tokens, given, now, hist>>

\* line 191, and line 194 when the target is not in the list
revoke_access_191 ==
    \E t \in Threads :
        /\ At(t, "revoke", 191)
        /\ IF inflight[t].filename \notin DOMAIN files
           THEN /\ Raise(t, "KeyError")
                /\ UNCHANGED hist
           ELSE IF Contains(files[inflight[t].filename].shared_with,
                            inflight[t].target_user)
           THEN /\ Goto(t, 192)
                /\ UNCHANGED hist
           ELSE /\ Return(t, 200, "Access revoked successfully", <<>>)
                /\ hist' = Revoked(t)
        /\ UNCHANGED <<users, users_json, files, uploads, tokens, given, now>>

\* lines 192-194
revoke_access_192 ==
    \E t \in Threads :
        /\ At(t, "revoke", 192)
        /\ IF inflight[t].filename \notin DOMAIN files
           THEN /\ Raise(t, "KeyError")
                /\ UNCHANGED <<files, hist>>
           ELSE IF ~Contains(files[inflight[t].filename].shared_with,
                             inflight[t].target_user)
           THEN /\ Raise(t, "ValueError")
                /\ UNCHANGED <<files, hist>>
           ELSE /\ files' = [files EXCEPT ![inflight[t].filename].shared_with =
                                Remove(@, inflight[t].target_user)]
                /\ Return(t, 200, "Access revoked successfully", <<>>)
                /\ hist' = Revoked(t)
        /\ UNCHANGED <<users, users_json, uploads, tokens, given, now>>

\* a server on which two users have registered and logged in
InitConc ==
    /\ users = [u \in {"alice", "bob"} |->
                    [password |-> hashpw("p1", "s1"), files |-> <<>>]]
    /\ users_json = save_users(users)
    /\ given = [u \in {"alice", "bob"} |-> "p1"]
    /\ files = EmptyDict
    /\ uploads = EmptyDict
    /\ now = 0
    /\ tokens = {create_access_token(u) : u \in {"alice", "bob"}}
    /\ resp = Response("start", NoField, <<>>, NoField, 0, "", <<>>)
    /\ pre = Found(<<>>, NoField)
    /\ auth = NoToken
    /\ inflight = EmptyDict
    /\ hist = NoHistory

NextConc ==
    \/ BeginUpload
    \/ upload_file_124
    \/ upload_file_127
    \/ BeginDelete
    \/ delete_file_201
    \/ delete_file_204
    \/ delete_file_209
    \/ delete_file_210
    \/ delete_file_213
    \/ BeginShare
    \/ share_file_160
    \/ share_file_163
    \/ share_file_166
    \/ share_file_169
    \/ share_file_170
    \/ BeginRevoke
    \/ revoke_access_185
    \/ revoke_access_188
    \/ revoke_access_191
    \/ revoke_access_192

SpecConc == InitConc /\ [][NextConc]_vars

(* ---- vocabulary of the properties ---- *)
Range(seq) == {seq[i] : i \in 1..Len(seq)}

sharedWith(f) == Range(files[f].shared_with)

\* the last request got past @jwt_required()
Authenticated(r) == r.caller # NoField

Listed(u) == Range(owned_files(u)) \cup Range(shared_files(u))

(* ---- C1 ---- *)
\* C1: a download answers NotFound when the name has no record, AccessDenied
\* when the caller is neither the owner nor in sharedWith, and otherwise the
\* stored content; nobody else ever receives the content.
C1_DownloadAccessControl ==
    (resp.op = "download" /\ Authenticated(resp)) =>
        IF resp.name \notin DOMAIN files
        THEN resp.status = 404 /\ resp.body = NoField
        ELSE IF /\ resp.caller # files[resp.name].owner
                /\ resp.caller \notin sharedWith(resp.name)
        THEN resp.status = 403 /\ resp.body = NoField
        ELSE /\ resp.status = 200
             /\ resp.name \in DOMAIN uploads
             /\ resp.body = uploads[resp.name]

\* a user is turned down while the file is shared with somebody else
C1_Witness ==
    /\ resp.op = "download"
    /\ resp.status = 403
    /\ files[resp.name].shared_with # <<>>

(* ---- C2 ---- *)
\* C2: no record has its owner in its own sharedWith, and so the owned and
\* the shared names List reports to a user have nothing in common.
C2_OwnerNeverShared ==
    /\ \A f \in DOMAIN files : files[f].owner \notin sharedWith(f)
    /\ \A u \in Usernames :
           Range(owned_files(u)) \cap Range(shared_files(u)) = {}

(* ---- C3 ---- *)
\* C3 (as stated): while a record exists its owner never changes, whatever
\* operations are performed.
C3_OwnerImmutable ==
    [][\A f \in DOMAIN files :
           f \in DOMAIN files' => files'[f].owner = files[f].owner]_vars

\* C3 (amended): the owner of a record is changed only by a successful
\* upload of the same sanitized name, which makes the uploader the owner; a
\* record disappears only by its owner's delete or by a restart.
C3_OwnerChangedOnlyByUpload ==
    [][\A f \in DOMAIN files :
           /\ (f \in DOMAIN files' /\ files'[f].owner # files[f].owner) =>
                  /\ resp'.op = "upload"
                  /\ resp'.status = 201
                  /\ secure_filename(resp'.name) = f
                  /\ files'[f].owner = resp'.caller
           /\ f \notin DOMAIN files' =>
                  \/ resp'.op = "restart"
                  \/ /\ resp'.op = "delete"
                     /\ resp'.status = 200
                     /\ resp'.name = f
                     /\ resp'.caller = files[f].owner]_vars

\* an upload has taken a file away from its owner
C3_Witness ==
    /\ resp.op = "upload"
    /\ resp.status = 201
    /\ pre.owner \notin {NoField, resp.caller}

(* ---- C4 ---- *)
\* C4: after a successful upload the record of the sanitized name has the
\* uploader as owner and nobody in sharedWith, the stored content is the
\* uploaded one, and every other user is denied the download.
C4_UploadReplaces ==
    (resp.op = "upload" /\ resp.status = 201) =>
        LET f == secure_filename(resp.name) IN
            /\ f \in DOMAIN files
            /\ files[f] = [owner |-> resp.caller, shared_with |-> <<>>]
            /\ f \in DOMAIN uploads
            /\ uploads[f] = resp.sent
            /\ \A u \in Usernames \ {resp.caller} :
                   download_file(u, f).status = 403

\* the upload replaced a record of another owner that was shared
C4_Witness ==
    /\ resp.op = "upload"
    /\ resp.status = 201
    /\ pre.owner \notin {NoField, resp.caller}
    /\ pre.shares > 0
    /\ resp.name # secure_filename(resp.name)

(* ---- C5 ---- *)
NonOwnerRequest ==
    /\ resp'.op \in {"share", "revoke", "delete"}
    /\ Authenticated(resp')
    /\ resp'.name \in DOMAIN files
    /\ files[resp'.name].owner # resp'.caller

\* C5 (as stated): share, revoke and delete by a caller who is not the owner
\* of the existing record fail with AccessDenied and change nothing.
C5_OwnerOnly ==
    [][NonOwnerRequest =>
           /\ resp'.status = 403
           /\ files' = files
           /\ uploads' = uploads]_vars

\* C5 (amended): such a request changes nothing and fails: with InvalidInput
\* when a share or revoke names no target user, with AccessDenied otherwise.
C5_OwnerOnlyGivenTarget ==
    [][NonOwnerRequest =>
           /\ resp'.status = IF resp'.op # "delete" /\ resp'.target = NoField
                             THEN 400 ELSE 403
           /\ files' = files
           /\ uploads' = uploads]_vars

\* a user the file is shared with is refused its deletion
C5_Witness ==
    /\ resp.op = "delete"
    /\ resp.status = 403
    /\ resp.caller \in sharedWith(resp.name)

(* ---- C6 ---- *)
NonOwnerGrant ==
    /\ resp'.op \in {"share", "revoke"}
    /\ Authenticated(resp')
    /\ resp'.name # <<>>
    /\ resp'.target # NoField
    /\ \/ resp'.name \notin DOMAIN files
       \/ files[resp'.name].owner # resp'.caller

\* C6 (as stated): share or revoke by a user who does not own the named file
\* fails with AccessDenied whether or not a record for the name exists.
C6_NonOwnerAlwaysDenied ==
    [][NonOwnerGrant => resp'.status = 403]_vars

\* C6 (amended): it fails with AccessDenied when a record for the name
\* exists and with NotFound when none does.
C6_NonOwnerDeniedOrNotFound ==
    [][NonOwnerGrant =>
           resp'.status = IF resp'.name \in DOMAIN files THEN 403 ELSE 404]_vars

\* a revoke of a file that has no record
C6_Witness ==
    /\ resp.op = "revoke"
    /\ resp.target # NoField
    /\ resp.status = 404

(* ---- C7 ---- *)
\* C7: download, share, revoke and delete of a name without a record answer
\* NotFound, never AccessDenied, to every authenticated caller.
C7_ExistenceFirst ==
    [][( /\ resp'.op \in {"download", "share", "revoke", "delete"}
         /\ Authenticated(resp')
         /\ resp'.name # <<>>
         /\ resp'.op \in {"share", "revoke"} => resp'.target # NoField
         /\ resp'.name \notin DOMAIN files )
       => /\ resp'.status = 404
          /\ resp'.msg = "File not found"]_vars

\* a share of a file that has no record
C7_Witness ==
    /\ resp.op = "share"
    /\ resp.status = 404
    /\ resp.msg = "File not found"

(* ---- C8 ---- *)
\* u is refused f, which has a record
Denied(u, f) ==
    /\ f \in DOMAIN files
    /\ u \notin sharedWith(f)
    /\ f \notin Range(shared_files(u))
    /\ download_file(u, f).status = 403

\* u gets nothing of f: refused while f has a record, not found otherwise
Locked(u, f) ==
    /\ f \in DOMAIN files => u \notin sharedWith(f)
    /\ f \notin Range(shared_files(u))
    /\ download_file(u, f).status = IF f \in DOMAIN files THEN 403 ELSE 404

\* the step is a successful upload of f by u
UploadedBy(u, f) ==
    /\ resp'.op = "upload"
    /\ resp'.status = 201
    /\ secure_filename(resp'.name) = f
    /\ resp'.caller = u

\* the step is a successful share of f with u by o
SharedBy(o, f, u) ==
    /\ resp'.op = "share"
    /\ resp'.status = 200
    /\ resp'.name = f
    /\ resp'.target = u
    /\ resp'.caller = o

RevokeDenies ==
    (resp.op = "revoke" /\ resp.status = 200 /\ resp.target # resp.caller) =>
        Denied(resp.target, resp.name)

\* C8 (as stated), on the step that follows a successful Revoke(o, f, u):
\* unless that step is a successful Share(o, f, u) or an upload of f by u,
\* u is still out of sharedWith and Download(u, f) still fails with
\* AccessDenied.
C8_RevokedStaysDenied ==
    [][\A f \in PathNames, u \in Usernames, o \in Usernames :
           ( /\ o # u
             /\ resp.op = "revoke"
             /\ resp.status = 200
             /\ resp.name = f
             /\ resp.target = u
             /\ resp.caller = o
             /\ ~SharedBy(o, f, u)
             /\ ~UploadedBy(u, f) )
           => Denied(u, f)']_vars

\* C8 (amended): right after a successful Revoke(o, f, u), u is out of
\* sharedWith, List(u) does not report f as shared and Download(u, f) fails
\* with AccessDenied; and a user who gets nothing of f (AccessDenied while f
\* has a record, NotFound while it has none) stays so until f is shared with
\* u by its owner of that moment or uploaded by u.
C8_RevokeLocksOut ==
    /\ []RevokeDenies
    /\ [][\A f \in PathNames, u \in Usernames :
              ( /\ Locked(u, f)
                /\ ~UploadedBy(u, f)
                /\ ~(f \in DOMAIN files /\ SharedBy(files[f].owner, f, u)) )
              => Locked(u, f)']_vars

\* a revoke took a user out of sharedWith
C8_Witness ==
    /\ resp.op = "revoke"
    /\ resp.status = 200
    /\ resp.target # resp.caller
    /\ pre.granted
    /\ pre.shares > 1

(* ---- C9 ---- *)
\* neither a record nor content is left of f
Gone(f) ==
    /\ f \notin DOMAIN files
    /\ f \notin DOMAIN uploads
    /\ \A u \in Usernames :
           /\ download_file(u, f).status = 404
           /\ f \notin Listed(u)

DeleteRemoves ==
    (resp.op = "delete" /\ resp.status = 200) => Gone(resp.name)

\* C9: after a successful delete the record and the content are gone: every
\* download and a repeated delete answer NotFound and no List reports the
\* name, until the name is uploaded again; and the owner's delete succeeds
\* also when the content is already missing.
C9_DeleteRemovesAll ==
    /\ []DeleteRemoves
    /\ [][\A f \in PathNames :
              /\ (Gone(f) /\ \A u \in Usernames : ~UploadedBy(u, f)) => Gone(f)'
              /\ ( /\ resp'.op = "delete"
                   /\ Authenticated(resp')
                   /\ resp'.name = f )
                 => resp'.status =
                        IF f \notin DOMAIN files THEN 404
                        ELSE IF files[f].owner # resp'.caller THEN 403
                        ELSE 200]_vars

\* the owner deleted a file whose content was already missing
C9_Witness ==
    /\ resp.op = "delete"
    /\ resp.status = 200
    /\ ~pre.stored

(* ---- C10 ---- *)
\* C10: a restart keeps the users, who can log in as before, and the file
\* records with their owner and sharedWith.
C10_SurvivesRestart ==
    [][resp'.op = "restart" =>
           /\ users' = users
           /\ \A d \in Credentials :
                  (d.username \in DOMAIN users
                   /\ checkpw(d.password, users[d.username].password))
                  => (d.username \in DOMAIN users'
                      /\ checkpw(d.password, users'[d.username].password))
           /\ files' = files]_vars

(* ---- C12 ---- *)
\* every registered user's credential is the hash of the password its
\* successful registration gave
CredentialAsRegistered ==
    \A u \in DOMAIN users :
        /\ u \in DOMAIN given
        /\ checkpw(given[u], users[u].password)

\* no step changes or removes a registered user's credential
CredentialsKept ==
    \A u \in DOMAIN users :
        /\ u \in DOMAIN users'
        /\ users'[u].password = users[u].password

RightPassword(r) ==
    /\ r.target \in DOMAIN users
    /\ r.target \in DOMAIN given
    /\ r.sent = given[r.target]

\* C13: a login with both fields non-empty issues a token bound to the
\* username exactly when the username is registered and the password is the
\* one given at its registration; otherwise, unknown username or wrong
\* password alike, it answers the same AuthenticationFailed, issues no token
\* and changes no state.
C13_LoginIffCredential ==
    [][( /\ resp'.op = "login"
         /\ resp'.target # NoField
         /\ resp'.sent # NoField )
       => IF RightPassword(resp')
          THEN /\ resp'.status = 200
               /\ resp'.body \in tokens'
               /\ get_jwt_identity(resp'.body) = resp'.target
               /\ tokens' = tokens \cup {resp'.body}
          ELSE /\ resp'.status = 401
               /\ resp'.msg = "Invalid username or password"
               /\ resp'.body = <<>>
               /\ UNCHANGED <<users, users_json, files, uploads, tokens>>]_vars

\* a registered user was refused a login with a password other than its own
C13_Witness ==
    /\ resp.op = "login"
    /\ resp.status = 401
    /\ resp.target \in DOMAIN users
    /\ resp.sent \notin {NoField, given[resp.target]}
    /\ tokens # {}

(* ---- C15 ---- *)
\* the request of this step repeats the successful request before it
Repeats(op) ==
    /\ resp.op = op
    /\ resp.status = 200
    /\ resp'.op = op
    /\ resp'.caller = resp.caller
    /\ resp'.name = resp.name
    /\ resp'.target = resp.target

\* the owner of f asks to revoke a user f is not shared with
RevokesNonMember ==
    /\ resp'.op = "revoke"
    /\ resp'.target # NoField
    /\ resp'.name \in DOMAIN files
    /\ resp'.caller = files[resp'.name].owner
    /\ resp'.target \notin sharedWith(resp'.name)

FirstFailure(r) ==
    IF r.name = <<>> \/ r.target = NoField THEN 400
    ELSE IF r.name \notin DOMAIN files THEN 404
    ELSE IF files[r.name].owner # r.caller THEN 403
    ELSE 0

\* C16: an authenticated Share answers the first that applies of InvalidInput
\* (empty name or target), NotFound (no record), AccessDenied (caller is not
\* the owner), NotFound (target not registered), and then leaves every record
\* unchanged; a Revoke applies the first three in the same order and succeeds
\* for a target that is not registered.
C16_CheckOrder ==
    [][/\ (resp'.op = "share" /\ Authenticated(resp')) =>
              IF FirstFailure(resp') # 0
              THEN /\ resp'.status = FirstFailure(resp')
                   /\ files' = files
              ELSE IF resp'.target \notin DOMAIN users
              THEN /\ resp'.status = 404
                   /\ resp'.msg = "Target user does not exist"
                   /\ files' = files
              ELSE resp'.status = 200
       /\ (resp'.op = "revoke" /\ Authenticated(resp')) =>
              IF FirstFailure(resp') # 0
              THEN /\ resp'.status = FirstFailure(resp')
                   /\ files' = files
              ELSE resp'.status = 200]_vars

\* the owner revoked a user who is not registered
C16_Witness ==
    /\ resp.op = "revoke"
    /\ resp.status = 200
    /\ resp.target \notin DOMAIN users
    /\ resp.target # NoField

(* ---- C17 ---- *)
\* the names of every file a client can name or upload
Names == PathNames \cup {secure_filename(n) : n \in RawNames}

\* the listing in the last response is exact for its caller
ListExact ==
    (resp.op = "files" /\ Authenticated(resp)) =>
        /\ resp.status = 200
        /\ \A f \in Names \cup DOMAIN files :
               /\ f \in Range(resp.body.owned_files) <=>
                      (f \in DOMAIN files /\ files[f].owner = resp.caller)
               /\ f \in Range(resp.body.shared_files) <=>
                      (f \in DOMAIN files /\ resp.caller \in sharedWith(f))

\* C17: a listing has a name in owned exactly when the name has a record
\* owned by the caller and in shared exactly when the caller is in the
\* record's sharedWith, so a user who is neither sees the file in neither;
\* and a listing changes no state.
C17_ListExact ==
    /\ []ListExact
    /\ [][resp'.op = "files" =>
              UNCHANGED <<users, users_json, files, uploads, tokens>>]_vars

\* a user listed nothing while another user's file exists, not shared with
\* them
C17_Witness ==
    /\ resp.op = "files"
    /\ Authenticated(resp)
    /\ resp.body.owned_files = <<>>
    /\ resp.body.shared_files = <<>>
    /\ \E f \in DOMAIN files : files[f].shared_with # <<>>

(* ---- C14 ---- *)
Protected == {"files", "upload", "download", "share", "revoke", "delete"}

\* C14: a successful login at time t issues a token that expires at t + 1
\* hour; a protected request presenting a token is handled as the token's
\* user at every time before the expiry, and from the expiry on it answers
\* AuthenticationFailed and changes no record and no content.
C14_TokenLifetime ==
    [][/\ (resp'.op = "login" /\ resp'.status = 200) =>
              /\ resp'.body.sub = resp'.target
              /\ resp'.body.exp = now + TicksPerHour
       /\ \A token \in tokens :
              (auth' = token /\ resp'.op \in Protected) =>
                  IF now < token.exp
                  THEN /\ resp'.caller = token.sub
                       /\ resp'.status # 401
                  ELSE /\ resp'.status = 401
                       /\ resp'.caller = NoField
                       /\ UNCHANGED <<users, files, uploads>>]_vars

\* an upload was refused for a token past its expiry, while a file exists
C14_Witness ==
    /\ resp.op = "upload"
    /\ resp.status = 401
    /\ auth \in tokens
    /\ auth.exp <= now
    /\ files # EmptyDict

(* ---- C11 ---- *)
\* C11: in every state another request can observe, a name has a record
\* exactly when it has stored content, and the stored content is the one the
\* record's owner uploaded.
C11_MetadataWithContent ==
    \A f \in Names \cup DOMAIN files \cup DOMAIN uploads :
        /\ f \in DOMAIN files <=> f \in DOMAIN uploads
        /\ f \in DOMAIN files => hist.uploader[f] = files[f].owner

(* ---- C18 ---- *)
\* C18: the owner of every record and every member of every sharedWith is a
\* registered user, and no sharedWith holds a username twice.
C18_ReferentialIntegrity ==
    \A f \in DOMAIN files :
        /\ files[f].owner \in DOMAIN users
        /\ sharedWith(f) \subseteq DOMAIN users
        /\ Cardinality(sharedWith(f)) = Len(files[f].shared_with)

(* ---- C19 ---- *)
\* thread t answers in this step
Answers(t) == t \in DOMAIN inflight /\ t \notin DOMAIN inflight'

\* C19: when two overlapping Share(o, f, u) have both succeeded, a Revoke(o,
\* f, u) that then runs with no other request in flight, and succeeds, leaves
\* u without access: Download(u, f) answers AccessDenied.
C19_RevokeAfterConcurrentShares ==
    [][\A t \in DOMAIN inflight, f \in PathNames, u \in Usernames :
           ( /\ Answers(t)
             /\ inflight[t].op = "revoke"
             /\ inflight[t].filename = f
             /\ inflight[t].target_user = u
             /\ inflight[t].alone
             /\ Races(Grant(t)) = 2
             /\ resp'.status = 200 )
           => download_file(u, f)'.status = 403]_vars

(* ---- C20 ---- *)
\* the last response is a share's or a revoke's failure to read a record that
\* is no longer there
RecordGone ==
    /\ resp.op \in {"share", "revoke"}
    /\ resp.status = 500
    /\ resp.body = "KeyError"

\* thread t takes a step
Steps(t) ==
    /\ t \in DOMAIN inflight
    /\ t \notin DOMAIN inflight' \/ inflight'[t].pc # inflight[t].pc

\* C20: a Share or Revoke that a Delete of its file overtakes still answers
\* success, InvalidInput, NotFound or AccessDenied, never the failure of
\* reading a record that is no longer there; and no step of a Share or a
\* Revoke puts back the record of a deleted file.
C20_DeclaredKindsOnly ==
    /\ []~RecordGone
    /\ [][\A t \in DOMAIN inflight :
              ( /\ Steps(t)
                /\ inflight[t].op \in {"share", "revoke"}
                /\ inflight[t].filename \notin DOMAIN files )
              => inflight[t].filename \notin DOMAIN files']_vars

====
